---- MODULE Spec2Model ----
(***************************************************************************)
(* A model of the logic-circuit widget: gates, connectors, connections,    *)
(* the two-click connect interaction, gate deletion, loading from the      *)
(* persisted strings, and the timer-driven propagation of signals.         *)
(*                                                                         *)
(* JavaScript values true / false / null are the strings "true", "false",  *)
(* "null".  A connector is a record [gate |-> id, slot |-> s]; a gate is a *)
(* record of its reactive properties and of the .value of its connectors.  *)
(***************************************************************************)
EXTENDS Integers, Sequences, FiniteSets, TLC

\* ------------------------------------------------------------------ bounds
\* number of gates that may ever be added (caps the gateID counter)
MaxGateID == 3
\* largest simulationDelay, in clock ticks, a run may be configured with
MaxDelay == 1
\* number of user actions (drops, connector clicks) of an editing run
MaxUserActions == 3
\* number of user actions (INPUT clicks, checkbox changes) of a simulation run
MaxSimActions == 4

VARIABLES
    gateElements,    \* widget.gateElements: sequence of gate ids
    gates,           \* gate id -> gate record (the Gate objects)
    lineElements,    \* widget.lineElements: sequence of [start, end]
    gateID,          \* widget.gateID
    startConnector,  \* widget.startConnector (NoConnector is null)
    isDrawingLine,   \* widget.isDrawingLine
    simulate,        \* widget.simulate
    simChecked,      \* widget.simCheckbox.checked
    simulationDelay, \* widget.simulationDelay, in clock ticks
    timers,          \* pending setTimeout callbacks, in scheduling order
    reflectGates,    \* widget.reflectGates: sequence of saved gates
    reflectCons,     \* widget.reflectCons: sequence of saved pairs
    loaded,          \* whether LogicCircuit.firstUpdated has run
    userActions,     \* number of user actions taken so far
    sinceStart,      \* clock ticks since the last start, -1 when none
    lastOp,          \* the last operation and its arguments
    allowSimulation, \* widget.allowSimulation: 0 or 1
    allowed,         \* widget.notGateAllowed, andGateAllowed, ...: by kind
    endConnector,    \* widget.endConnector (NoConnector is null)
    expected         \* for the properties only: the gates as they settle
                     \* when the timers fire in the order they were set

vars == <<gateElements, gates, lineElements, gateID, startConnector,
          isDrawingLine, simulate, simChecked, simulationDelay, timers,
          reflectGates, reflectCons, loaded, userActions, sinceStart, lastOp,
          allowSimulation, allowed, endConnector, expected>>

\* ------------------------------------------------------------------ values
Values == {"true", "false", "null"}
Booleans == {"true", "false"}

TwoInputKinds == {"AND", "OR", "NAND", "NOR", "XOR", "XNOR"}
GateType == TwoInputKinds \cup {"NOT", "INPUT", "OUTPUT", "SPLITTER"}

\* the kinds that have an allowance property (notGateAllowed, ...)
LimitedKinds == TwoInputKinds \cup {"NOT", "SPLITTER"}

\* every allowance at its default -1: no limit
Unlimited == [kind \in LimitedKinds |-> -1]

\* JavaScript truthiness of true / false / null
Truthy(v) == v = "true"

\* JavaScript !v
JsNot(v) == IF Truthy(v) THEN "false" ELSE "true"

\* JavaScript a && b : the first operand when it is falsy, else the second
JsAnd(a, b) == IF Truthy(a) THEN b ELSE a

\* JavaScript a || b : the first operand when it is truthy, else the second
JsOr(a, b) == IF Truthy(a) THEN a ELSE b

\* a boolean as a JavaScript value
ToValue(b) == IF b THEN "true" ELSE "false"

\* ------------------------------------------------------------------ gates
\* Gate constructor: inputs null, outputs false; connectors start with
\* value null.
NewGate(kind) ==
    [gatetype |-> kind, input1 |-> "null", input2 |-> "null",
     output |-> "false", output2 |-> "false",
     conIn1 |-> "null", conIn2 |-> "null",
     conOut |-> "null", conOut2 |-> "null"]

\* the entry of a gate id that has no Gate object
NoGate ==
    [gatetype |-> "NONE", input1 |-> "null", input2 |-> "null",
     output |-> "null", output2 |-> "null",
     conIn1 |-> "null", conIn2 |-> "null",
     conOut |-> "null", conOut2 |-> "null"]

\* the connectors Gate.firstUpdated creates for a gate of a kind
SlotsOf(kind) ==
    CASE kind = "INPUT" -> {"Out"}
      [] kind = "OUTPUT" -> {"In1"}
      [] kind = "NOT" -> {"In1", "Out"}
      [] kind = "SPLITTER" -> {"In1", "Out", "Out2"}
      [] kind \in TwoInputKinds -> {"In1", "In2", "Out"}
      [] OTHER -> {}

\* ConnectorElement.type
ConnectorType(slot) == IF slot \in {"In1", "In2"} THEN "input" ELSE "output"

ANDGate_calculateOutput_or(g) == [g EXCEPT !.output = JsOr(g.input1, g.input2)]

ANDGate_calculateOutput(g) == [g EXCEPT !.output = JsAnd(g.input1, g.input2)]

ORGate_calculateOutput(g) == [g EXCEPT !.output = JsOr(g.input1, g.input2)]

NOTGate_calculateOutput(g) == [g EXCEPT !.output = JsNot(g.input1)]

Splitter_calculateOutput_single(g) == [g EXCEPT !.output = g.input1]

Splitter_calculateOutput(g) ==
    [g EXCEPT !.output = g.input1, !.output2 = g.input1]

Input_calculateOutput(g) == [g EXCEPT !.output = g.input1]

Output_calculateOutput_not(g) == [g EXCEPT !.output = JsNot(g.input1)]

Output_calculateOutput(g) == [g EXCEPT !.output = g.input1]

\* NAND, NOR, XOR, XNOR: the truth table of the specification, an unset
\* input counting as false
NANDGate_calculateOutput(g) ==
    [g EXCEPT !.output = ToValue(~(Truthy(g.input1) /\ Truthy(g.input2)))]

NORGate_calculateOutput(g) ==
    [g EXCEPT !.output = ToValue(~(Truthy(g.input1) \/ Truthy(g.input2)))]

XORGate_calculateOutput(g) ==
    [g EXCEPT !.output = ToValue(Truthy(g.input1) # Truthy(g.input2))]

XNORGate_calculateOutput(g) ==
    [g EXCEPT !.output = ToValue(Truthy(g.input1) = Truthy(g.input2))]

\* dynamic dispatch of gate.calculateOutput()
calculateOutput(g) ==
    CASE g.gatetype = "AND" -> ANDGate_calculateOutput(g)
      [] g.gatetype = "OR" -> ORGate_calculateOutput(g)
      [] g.gatetype = "NOT" -> NOTGate_calculateOutput(g)
      [] g.gatetype = "NAND" -> NANDGate_calculateOutput(g)
      [] g.gatetype = "NOR" -> NORGate_calculateOutput(g)
      [] g.gatetype = "XOR" -> XORGate_calculateOutput(g)
      [] g.gatetype = "XNOR" -> XNORGate_calculateOutput(g)
      [] g.gatetype = "SPLITTER" -> Splitter_calculateOutput(g)
      [] g.gatetype = "INPUT" -> Input_calculateOutput(g)
      [] g.gatetype = "OUTPUT" -> Output_calculateOutput(g)
      [] OTHER -> g

\* ------------------------------------------------------------ connectors
Connector(g, s) == [gate |-> g, slot |-> s]

\* startConnector = null, and an endpoint firstUpdated could not resolve
NoConnector == [gate |-> 0, slot |-> "none"]

GateIds == 1..(2 * MaxGateID)

\* the connector elements of the gates placed in the workspace
ConnectorsIn(elems, gs) ==
    {Connector(elems[i], s) : i \in DOMAIN elems, s \in {"In1", "In2", "Out", "Out2"}}
        \cap {c \in [gate : GateIds, slot : {"In1", "In2", "Out", "Out2"}] :
                c.slot \in SlotsOf(gs[c.gate].gatetype)}

\* Gate.updateConnectorColor: under simulation every connector of the gate
\* gets the value true or false of the property it shows
updateConnectorColor(g, sim) ==
    LET slots == SlotsOf(g.gatetype) IN
    IF ~sim THEN g
    ELSE [g EXCEPT
            !.conOut = IF "Out" \in slots THEN ToValue(g.output = "true") ELSE @,
            !.conOut2 = IF "Out2" \in slots THEN ToValue(g.output = "true") ELSE @,
            !.conIn1 = IF "In1" \in slots THEN ToValue(g.input1 = "true") ELSE @,
            !.conIn2 = IF "In2" \in slots THEN ToValue(g.input2 = "true") ELSE @]

\* Gate.resetConnectorColor: every connector of the gate gets value false
resetConnectorColor(g) ==
    LET slots == SlotsOf(g.gatetype) IN
    [g EXCEPT
        !.conOut = IF "Out" \in slots THEN "false" ELSE @,
        !.conOut2 = IF "Out2" \in slots THEN "false" ELSE @,
        !.conIn1 = IF "In1" \in slots THEN "false" ELSE @,
        !.conIn2 = IF "In2" \in slots THEN "false" ELSE @]

\* a pending setTimeout(() => transferOutputToNextGate(widget, gate), delay):
\* the callback holds the gate, not a value.  stale and snap record, for the
\* properties only, whether a reset happened since the timer was set and
\* what the gate's outputs were when it was set.
Timer(id, g, delay) ==
    [gate |-> id, left |-> IF delay < 0 THEN 0 ELSE delay, stale |-> FALSE,
     snap |-> <<g.output, g.output2>>]

\* Gate.updated of a placed (movable) gate whose input1 / input2 changed:
\* the new gate record and the timers it sets
GateUpdated(id, g, ch1, ch2, sim, delay) ==
    LET inputBranch == g.gatetype = "INPUT" /\ ch1
        g1 == IF inputBranch
              THEN updateConnectorColor(calculateOutput(g), sim) ELSE g
        t1 == IF inputBranch THEN <<Timer(id, g1, delay)>> ELSE <<>>
        outputBranch == sim /\ g.gatetype = "OUTPUT" /\ ch1
        otherBranch == sim /\ ~outputBranch /\ (ch1 \/ ch2)
        g2 == IF outputBranch \/ otherBranch
              THEN updateConnectorColor(calculateOutput(g1), sim) ELSE g1
        t2 == IF otherBranch THEN <<Timer(id, g2, delay)>> ELSE <<>>
    IN [g |-> g2, timers |-> t1 \o t2]

\* the property a line's start connector carries
SourceValue(g, slot) == IF slot = "Out2" THEN g.output2 ELSE g.output

GetInput(g, slot) == IF slot = "In1" THEN g.input1 ELSE g.input2

SetInput(g, slot, v) ==
    IF slot = "In1" THEN [g EXCEPT !.input1 = v] ELSE [g EXCEPT !.input2 = v]

\* the elements of a sequence
Range(seq) == {seq[i] : i \in DOMAIN seq}

\* the largest number of a finite set of naturals, 0 for the empty set
MaxOf(set) == IF set = {} THEN 0 ELSE CHOOSE m \in set : \A n \in set : n <= m

\* transferOutputToNextGate(widget, gate): every connection whose source is
\* an output connector of the gate gets the gate's current output written to
\* the input property of its target gate, in the order of lineElements.
\* The result is [gates, order, ch1, ch2]: order the gates that requested an
\* update, ch1 / ch2 those whose input1 / input2 was set to a different value
transferOutputToNextGate(gs, lines, src) ==
    LET fromSrc(i) == lines[i].start.gate = src
        v(i) == SourceValue(gs[src], lines[i].start.slot)
        writes(c, n) == {j \in 1..n : fromSrc(j) /\ lines[j].end = c}
        valueAt(c, n) == IF writes(c, n) = {} THEN GetInput(gs[c.gate], c.slot)
                         ELSE v(MaxOf(writes(c, n)))
        changed == {i \in DOMAIN lines :
                      fromSrc(i) /\ v(i) # valueAt(lines[i].end, i - 1)}
        first == SelectSeq([i \in DOMAIN lines |-> i],
                           LAMBDA i : /\ i \in changed
                                      /\ \A j \in changed :
                                            j < i => lines[j].end.gate # lines[i].end.gate)
        changedSlot(sl) == {lines[i].end.gate :
                              i \in {j \in changed : lines[j].end.slot = sl}}
    IN [gates |-> [id \in DOMAIN gs |->
                     IF gs[id] = NoGate THEN gs[id]
                     ELSE [gs[id] EXCEPT
                             !.input1 = valueAt(Connector(id, "In1"), Len(lines)),
                             !.input2 = valueAt(Connector(id, "In2"), Len(lines))]],
        order |-> [k \in DOMAIN first |-> lines[first[k]].end.gate],
        ch1 |-> changedSlot("In1"),
        ch2 |-> changedSlot("In2")]

\* the Lit update cycle after a handler: Gate.updated runs once for every
\* gate that requested an update, in request order; res is [gates, timers],
\* the gates after the handler and the timers the handler itself has set
RunUpdates(res, order, ch1, ch2, sim, delay) ==
    LET upd(id) == GateUpdated(id, res.gates[id], id \in ch1, id \in ch2, sim, delay)
        slots == [n \in 1..(2 * Len(order)) |->
                    LET ts == upd(order[(n + 1) \div 2]).timers
                        k == 2 - (n % 2)
                    IN IF k <= Len(ts) THEN <<ts[k]>> ELSE <<>>]
        set == SelectSeq(slots, LAMBDA t : t # <<>>)
    IN [gates |-> [id \in DOMAIN res.gates |->
                     IF id \in Range(order) THEN upd(id).g ELSE res.gates[id]],
        timers |-> res.timers \o [k \in DOMAIN set |-> set[k][1]]]

TransferAndUpdate_rearm(gs, lines, src, sim, delay) ==
    LET acc == transferOutputToNextGate(gs, lines, src)
    IN RunUpdates([gates |-> acc.gates, timers |-> <<Timer(src, gs[src], delay)>>],
                  acc.order, acc.ch1, acc.ch2, sim, delay)

TransferAndUpdate_noTimers(gs, lines, src, sim, delay) ==
    LET acc == transferOutputToNextGate(gs, lines, src)
    IN [gates |-> RunUpdates([gates |-> acc.gates, timers |-> <<>>],
                             acc.order, acc.ch1, acc.ch2, sim, delay).gates,
        timers |-> <<>>]

\* the gates and new timers after a transfer from gate src and the update
\* cycle that follows it
TransferAndUpdate(gs, lines, src, sim, delay) ==
    LET acc == transferOutputToNextGate(gs, lines, src)
    IN RunUpdates([gates |-> acc.gates, timers |-> <<>>],
                  acc.order, acc.ch1, acc.ch2, sim, delay)

\* ------------------------------------------------------------ sequences
\* Array.splice(i, 1)
RemoveAt(seq, i) ==
    IF i < 1 \/ i > Len(seq) THEN seq
    ELSE SubSeq(seq, 1, i - 1) \o SubSeq(seq, i + 1, Len(seq))

\* Array.filter
Filter(seq, keep) == SelectSeq(seq, LAMBDA x : x \in keep)

\* the largest index of seq whose element is in the set, 0 when none
LastIndexIn(seq, set) ==
    LET hits == {i \in DOMAIN seq : seq[i] \in set}
    IN IF hits = {} THEN 0 ELSE CHOOSE i \in hits : \A j \in hits : j <= i

\* ---------------------------------------------------------- connections
\* whether a connector is an endpoint of some connection
IsConnected(lines, c) == \E i \in DOMAIN lines : lines[i].start = c \/ lines[i].end = c

\* whether an input connector is the target of some connection
HasIncoming(lines, c) == \E i \in DOMAIN lines : lines[i].end = c

\* createLine(widget, start, end), called for each [a, b] of calls in turn.
\* A call with a missing endpoint creates nothing; a line runs from the
\* output connector to the input connector; its pair is added to
\* reflectCons unless it is already there
createLines(lines, cons, calls) ==
    LET valid == SelectSeq(calls, LAMBDA c : c.a # NoConnector /\ c.b # NoConnector)
        made == [k \in DOMAIN valid |->
                   IF ConnectorType(valid[k].a.slot) = "output"
                   THEN [start |-> valid[k].a, end |-> valid[k].b]
                   ELSE [start |-> valid[k].b, end |-> valid[k].a]]
        fresh == SelectSeq([k \in DOMAIN made |-> k],
                           LAMBDA k : /\ made[k] \notin Range(cons)
                                      /\ \A j \in 1..(k - 1) : made[j] # made[k])
    IN [lines |-> lines \o made,
        cons |-> cons \o [k \in DOMAIN fresh |-> made[fresh[k]]]]

createLine(lines, cons, a, b) == createLines(lines, cons, <<[a |-> a, b |-> b]>>)

\* ------------------------------------------------------------------ reset
\* resetGates(widget): every gate that is not an INPUT has its inputs and
\* outputs unset, and every gate resets its connectors
resetGate(g) ==
    resetConnectorColor(
        IF g.gatetype = "INPUT" THEN g
        ELSE [g EXCEPT !.input1 = "null", !.input2 = "null",
                       !.output = "null", !.output2 = "null"])

resetGates(gs, elems) ==
    [id \in DOMAIN gs |-> IF id \in Range(elems) THEN resetGate(gs[id]) ELSE gs[id]]

\* the gates of elems, in order, whose input1 or input2 differs between two
\* gate tables: the gates that request a Lit update
ChangedInputs(elems, old, new) ==
    Filter(elems, {id \in Range(elems) :
                     old[id].input1 # new[id].input1 \/ old[id].input2 # new[id].input2})

\* the update cycle after a handler that reset the gates: Gate.updated runs
\* for the gates whose inputs the reset changed; res holds the gates and the
\* timers the handler itself has set
UpdatesAfterReset(old, res, elems, sim, delay) ==
    LET order == ChangedInputs(elems, old, res.gates)
    IN RunUpdates(res, order,
                  {id \in Range(order) : old[id].input1 # res.gates[id].input1},
                  {id \in Range(order) : old[id].input2 # res.gates[id].input2},
                  sim, delay)

\* LogicCircuit.resetCircuit: resetGates, and resetLines for the colours.
\* No timer is cleared; the pending ones are marked for the properties.
resetCircuit(gs, elems) == resetGates(gs, elems)

MarkStale(ts) == [i \in DOMAIN ts |-> [ts[i] EXCEPT !.stale = TRUE]]

\* seeding of simulateCircuit: every INPUT gate computes its output, colours
\* its connector and sets a timer
Seed(res, inputGates, delay) ==
    LET seeded(id) == updateConnectorColor(calculateOutput(res.gates[id]), TRUE)
    IN [gates |-> [id \in DOMAIN res.gates |->
                     IF id \in Range(inputGates) THEN seeded(id) ELSE res.gates[id]],
        timers |-> res.timers \o
                     [k \in DOMAIN inputGates |->
                        Timer(inputGates[k], seeded(inputGates[k]), delay)]]

\* prev is the startConnector a connector click found
OpAt(name, g, s, p) == [op |-> name, gate |-> g, slot |-> s, prev |-> p]

Op(name, g, s) == OpAt(name, g, s, NoConnector)

\* the clock of the properties stops at this value
SinceCap == 2 * MaxDelay

\* ------------------------------------------------------------------- load
\* the connector a saved id resolves to among the slots of one gate node
Resolve(gs, node, c) ==
    IF c.gate = node /\ c.slot \in SlotsOf(gs[node].gatetype) THEN c ELSE NoConnector

LoadCalls_early(gs, elems, saved) ==
    [n \in 1..(Len(saved) * Len(elems)) |->
        LET con == saved[((n - 1) \div Len(elems)) + 1]
        IN [a |-> Resolve(gs, elems[1], con.start),
            b |-> Resolve(gs, elems[1], con.end)]]

\* firstUpdated, the saved pairs: for every pair, a timeout per gate node
\* resolves the endpoints found in that node into the start / end shared
\* by the callbacks of the pair and then calls createLine with whatever has
\* been resolved so far.  The arguments of these calls, in timeout order
LoadCalls(gs, elems, saved) ==
    [n \in 1..(Len(saved) * Len(elems)) |->
        LET con == saved[((n - 1) \div Len(elems)) + 1]
            i == ((n - 1) % Len(elems)) + 1
        IN [a |-> IF \E j \in 1..i : Resolve(gs, elems[j], con.start) # NoConnector
                  THEN con.start ELSE NoConnector,
            b |-> IF \E j \in 1..i : Resolve(gs, elems[j], con.end) # NoConnector
                  THEN con.end ELSE NoConnector]]

\* addGate(widget, null, saved) for every saved gate: the gate table after
\* the saved gates are placed
LoadGates(saved) ==
    [id \in GateIds |->
        IF \E k \in DOMAIN saved : saved[k].id = id
        THEN NewGate((CHOOSE e \in Range(saved) : e.id = id).gatetype)
        ELSE NoGate]

SavedIds(saved) == [k \in DOMAIN saved |-> saved[k].id]

\* the first update of newly placed gates: every property a gate is
\* constructed with is in changedProperties, so Gate.updated runs with
\* input1 and input2 changed
FirstUpdates(gs, ids, sim, delay) ==
    RunUpdates([gates |-> gs, timers |-> <<>>], ids, Range(ids), Range(ids),
               sim, delay)

\* LogicCircuit.firstUpdated: the saved gates are added and updated for the
\* first time, then the saved pairs are resolved and connected
FirstUpdated ==
    /\ ~loaded
    /\ LET elems == SavedIds(reflectGates)
           upd == FirstUpdates(LoadGates(reflectGates), elems, simulate, simulationDelay)
           res == createLines(<<>>, reflectCons,
                              LoadCalls(upd.gates, elems, reflectCons))
       IN /\ gates' = upd.gates
          /\ timers' = timers \o upd.timers
          /\ gateElements' = elems
          /\ gateID' = MaxOf(Range(elems))
          /\ lineElements' = res.lines
          /\ reflectCons' = res.cons
    /\ loaded' = TRUE
    /\ lastOp' = Op("firstUpdated", 0, "none")
    /\ UNCHANGED <<startConnector, isDrawingLine, simulate, simChecked,
                   simulationDelay, reflectGates, sinceStart>>
    /\ UNCHANGED <<allowSimulation, allowed, endConnector>>

\* ------------------------------------------------------------ user editing
AllowanceOf_unlimited(limits, kind) == -1

\* the allowance of a kind: the widget property of the kind, -1 (no limit)
\* for INPUT and OUTPUT, which have none
AllowanceOf(limits, kind) == IF kind \in DOMAIN limits THEN limits[kind] ELSE -1

\* gateCounter: the number of placed gates of a kind
CountOf(elems, gs, kind) ==
    Cardinality({id \in Range(elems) : gs[id].gatetype = kind})

\* the ceiling of the kind is met
LimitReached(limits, elems, gs, kind) ==
    /\ AllowanceOf(limits, kind) >= 0
    /\ CountOf(elems, gs, kind) >= AllowanceOf(limits, kind)

\* addGate(widget, event): a gate of the dragged kind is placed, unless the
\* ceiling of the kind is met: then nothing is placed and the refusal is
\* reported
AddGate(kind) ==
    /\ loaded
    /\ IF LimitReached(allowed, gateElements, gates, kind)
       THEN /\ lastOp' = Op("addGateRefused", 0, kind)
            /\ UNCHANGED <<gateID, gateElements, gates, timers, reflectGates,
                           sinceStart>>
       ELSE /\ gateID < MaxGateID
            /\ gateID' = gateID + 1
            /\ gateElements' = Append(gateElements, gateID')
            /\ LET upd == FirstUpdates([gates EXCEPT ![gateID'] = NewGate(kind)],
                                       <<gateID'>>, simulate, simulationDelay)
               IN /\ gates' = upd.gates
                  /\ timers' = timers \o upd.timers
            /\ reflectGates' = Append(reflectGates, [id |-> gateID', gatetype |-> kind])
            /\ sinceStart' = -1
            /\ lastOp' = Op("addGate", gateID', "none")
    /\ UNCHANGED <<lineElements, startConnector, isDrawingLine, simulate,
                   simChecked, simulationDelay, reflectCons, loaded>>
    /\ UNCHANGED <<allowSimulation, allowed, endConnector>>

\* the kinds whose allowance the options menu has an input for
InputKinds == LimitedKinds \ {"SPLITTER"}

\* the properties a number input of the settings panel writes
InputProperties == InputKinds \cup {"simulationDelay"}

\* LogicCircuit.handleInputChange for the allowance of a kind or for the
\* simulation delay: a typed number that is negative (or no number at all,
\* typed = -1) gives -1
HandleInputChange(kind, typed) ==
    /\ loaded
    /\ kind \in InputProperties
    /\ allowed' = IF kind \in InputKinds
                  THEN [allowed EXCEPT ![kind] = IF typed < 0 THEN -1 ELSE typed]
                  ELSE allowed
    /\ simulationDelay' = IF kind = "simulationDelay"
                          THEN (IF typed < 0 THEN -1 ELSE typed)
                          ELSE simulationDelay
    /\ lastOp' = Op("handleInputChange", typed, kind)
    /\ UNCHANGED <<gateElements, gates, lineElements, gateID, startConnector,
                   isDrawingLine, simulate, simChecked, timers,
                   reflectGates, reflectCons, loaded, sinceStart, allowSimulation, endConnector>>

\* handleMouseDown, the test before createLine: the two connectors differ
\* in type and in gate
CanConnect_typeOnly(a, b) == ConnectorType(a.slot) # ConnectorType(b.slot)

CanConnect_sameGate(a, b) ==
    ConnectorType(a.slot) # ConnectorType(b.slot) /\ a.gate = b.gate

CanConnect(a, b) ==
    ConnectorType(a.slot) # ConnectorType(b.slot) /\ a.gate # b.gate

\* ConnectorElement.handleMouseDown on connector c
ConnectorMouseDown(c) ==
    /\ loaded
    /\ c \in ConnectorsIn(gateElements, gates)
    /\ IF IsConnected(lineElements, c)
       THEN /\ startConnector' = NoConnector
            /\ isDrawingLine' = FALSE
            /\ UNCHANGED <<lineElements, reflectCons>>
       ELSE IF startConnector = NoConnector
       THEN /\ startConnector' = c
            /\ isDrawingLine' = TRUE
            /\ UNCHANGED <<lineElements, reflectCons>>
       ELSE /\ IF CanConnect(startConnector, c)
               THEN LET res == createLine(lineElements, reflectCons, startConnector, c)
                    IN /\ lineElements' = res.lines
                       /\ reflectCons' = res.cons
               ELSE UNCHANGED <<lineElements, reflectCons>>
            /\ startConnector' = NoConnector
            /\ isDrawingLine' = FALSE
    /\ endConnector' = IF ~IsConnected(lineElements, c)
                          /\ startConnector = NoConnector
                       THEN endConnector ELSE NoConnector
    /\ sinceStart' = -1
    /\ lastOp' = OpAt("connectorMouseDown", c.gate, c.slot, startConnector)
    /\ UNCHANGED <<gateElements, gates, gateID, simulate, simChecked,
                   simulationDelay, timers, reflectGates, loaded>>
    /\ UNCHANGED <<allowSimulation, allowed>>

\* the canvas click that ends the drawing and keeps the start connector
CanvasMouseDown_keepStart ==
    /\ loaded
    /\ isDrawingLine' = FALSE
    /\ startConnector' = startConnector
    /\ lastOp' = Op("canvasMouseDown", 0, "none")
    /\ UNCHANGED <<gateElements, gates, lineElements, gateID, simulate,
                   simChecked, simulationDelay, timers, reflectGates,
                   reflectCons, loaded, sinceStart>>
    /\ UNCHANGED <<allowSimulation, allowed, endConnector>>

\* LogicCircuit.handleMouseDown on the empty canvas
CanvasMouseDown ==
    /\ loaded
    /\ isDrawingLine' = FALSE
    /\ startConnector' = IF isDrawingLine THEN NoConnector ELSE startConnector
    /\ lastOp' = Op("canvasMouseDown", 0, "none")
    /\ UNCHANGED <<gateElements, gates, lineElements, gateID, simulate,
                   simChecked, simulationDelay, timers, reflectGates,
                   reflectCons, loaded, sinceStart>>
    /\ UNCHANGED <<allowSimulation, allowed, endConnector>>

\* the first decimal digit of a saved gate's entry
FirstDigit(n) == IF n < 10 THEN n ELSE n \div 10

\* splice(index, 1) with index the last match, or -1: the last element
SpliceLastMatch(seq, set) ==
    LET i == LastIndexIn(seq, set)
    IN IF i = 0 THEN RemoveAt(seq, Len(seq)) ELSE RemoveAt(seq, i)

\* deleteGate, the loop over the connections to delete: each removes from
\* reflectCons the last entry that includes both of its connector ids
RECURSIVE RemoveCons(_, _, _)
RemoveCons(cons, doomed, i) ==
    IF i > Len(doomed) THEN cons
    ELSE RemoveCons(SpliceLastMatch(cons, {doomed[i]}), doomed, i + 1)

pathsToDelete_startOnly(lines, id) == {l \in Range(lines) : l.start.gate = id}

\* deleteGate, pathsToDelete: the connections that start or end at one of
\* the connectors of the gate
pathsToDelete(lines, id) ==
    {l \in Range(lines) : l.start.gate = id \/ l.end.gate = id}

\* Gate.deleteGate of the placed gate id
DeleteGate(id) ==
    /\ loaded
    /\ id \in Range(gateElements)
    /\ isDrawingLine' = FALSE
    /\ startConnector' = IF isDrawingLine THEN NoConnector ELSE startConnector
    /\ LET cleared == [gates EXCEPT ![id].output = "false", ![id].output2 = "false"]
           acc == transferOutputToNextGate(cleared, lineElements, id)
           touches == pathsToDelete(lineElements, id)
           res == RunUpdates([gates |-> [acc.gates EXCEPT ![id] = NoGate],
                              timers |-> <<>>],
                             acc.order, acc.ch1, acc.ch2, simulate, simulationDelay)
       IN /\ gates' = res.gates
          /\ timers' = timers \o res.timers
          /\ gateElements' = Filter(gateElements, Range(gateElements) \ {id})
          /\ lineElements' = Filter(lineElements, Range(lineElements) \ touches)
          /\ reflectCons' = RemoveCons(reflectCons, Filter(lineElements, touches), 1)
          /\ reflectGates' = SpliceLastMatch(reflectGates,
                                 {e \in Range(reflectGates) : FirstDigit(e.id) = id})
    /\ sinceStart' = -1
    /\ lastOp' = Op("deleteGate", id, "none")
    /\ UNCHANGED <<gateID, simulate, simChecked, simulationDelay, loaded>>
    /\ UNCHANGED <<allowSimulation, allowed, endConnector>>

\* LogicCircuit.handleDropTrashCan with the id of the drag data: the gate
\* found by the id is deleted; when find() returns undefined the call of
\* deleteGate on it throws a TypeError before anything is changed
HandleDropTrashCan(id) ==
    IF id \in Range(gateElements)
    THEN DeleteGate(id)
    ELSE /\ loaded
         /\ lastOp' = Op("handleDropTrashCan", id, "TypeError")
         /\ UNCHANGED <<gateElements, gates, lineElements, gateID,
                        startConnector, isDrawingLine, simulate, simChecked,
                        simulationDelay, timers, reflectGates, reflectCons,
                        loaded, sinceStart, allowSimulation, allowed, endConnector>>

\* --------------------------------------------------------------- simulation
\* a click on the pointer of the placed INPUT gate id: Gate.changeInput1,
\* then Gate.updated
ClickInput(id) ==
    /\ loaded
    /\ id \in Range(gateElements)
    /\ gates[id].gatetype = "INPUT"
    /\ LET toggled == [gates EXCEPT ![id].input1 = JsNot(@)]
           res == RunUpdates([gates |-> toggled, timers |-> <<>>],
                             <<id>>, {id}, {}, simulate, simulationDelay)
       IN /\ gates' = res.gates
          /\ timers' = timers \o res.timers
    /\ sinceStart' = -1
    /\ lastOp' = Op("changeInput1", id, "none")
    /\ UNCHANGED <<gateElements, lineElements, gateID, startConnector,
                   isDrawingLine, simulate, simChecked, simulationDelay,
                   reflectGates, reflectCons, loaded>>
    /\ UNCHANGED <<allowSimulation, allowed, endConnector>>

\* LogicCircuit.simulateCircuit with the Simulate checkbox checked or not
SimulateCircuitWith(checked) ==
    /\ loaded
    /\ simChecked' = checked
    /\ simulate' = simChecked'
    /\ LET reset == resetCircuit(gates, gateElements)
           inputGates == Filter(gateElements,
                                {id \in Range(gateElements) : gates[id].gatetype = "INPUT"})
           seeded == IF simChecked'
                     THEN Seed([gates |-> reset, timers |-> <<>>],
                               inputGates, simulationDelay)
                     ELSE [gates |-> reset, timers |-> <<>>]
           res == UpdatesAfterReset(gates, seeded, gateElements, simulate', simulationDelay)
       IN /\ gates' = res.gates
          /\ timers' = MarkStale(timers) \o res.timers
    /\ sinceStart' = IF simChecked' THEN 0 ELSE -1
    /\ lastOp' = Op(IF simChecked' THEN "start" ELSE "stop", 0, "none")
    /\ UNCHANGED <<gateElements, lineElements, gateID, startConnector,
                   isDrawingLine, simulationDelay, reflectGates, reflectCons,
                   loaded>>
    /\ UNCHANGED <<allowSimulation, allowed, endConnector>>

\* the user changes the Simulate checkbox, which is displayed while
\* allowSimulation is 1: LogicCircuit.simulateCircuit
SimulateCircuit ==
    /\ allowSimulation = 1
    /\ SimulateCircuitWith(~simChecked)

\* the host page calls the public method simulateCircuit()
CallSimulateCircuit == SimulateCircuitWith(simChecked)

\* the host page calls the public method resetCircuit(); the update cycle
\* of the gates whose inputs it changed follows
ResetCircuit ==
    /\ loaded
    /\ LET res == UpdatesAfterReset(gates,
                                    [gates |-> resetCircuit(gates, gateElements),
                                     timers |-> <<>>],
                                    gateElements, simulate, simulationDelay)
       IN /\ gates' = res.gates
          /\ timers' = MarkStale(timers) \o res.timers
    /\ sinceStart' = -1
    /\ lastOp' = Op("resetCircuit", 0, "none")
    /\ UNCHANGED <<gateElements, lineElements, gateID, startConnector,
                   isDrawingLine, simulate, simChecked, simulationDelay,
                   reflectGates, reflectCons, loaded, allowSimulation, allowed, endConnector>>

\* the user changes the Allow Simulation checkbox of the options:
\* LogicCircuit.handleAllowSimulation
HandleAllowSimulation ==
    /\ loaded
    /\ IF allowSimulation = 0
       THEN /\ simChecked' = FALSE
            /\ allowSimulation' = 1
            /\ UNCHANGED simulate
       ELSE /\ simulate' = FALSE
            /\ allowSimulation' = 0
            /\ UNCHANGED simChecked
    /\ LET res == UpdatesAfterReset(gates,
                                    [gates |-> resetCircuit(gates, gateElements),
                                     timers |-> <<>>],
                                    gateElements, simulate', simulationDelay)
       IN /\ gates' = res.gates
          /\ timers' = MarkStale(timers) \o res.timers
    /\ sinceStart' = -1
    /\ lastOp' = Op("handleAllowSimulation", 0, "none")
    /\ UNCHANGED <<gateElements, lineElements, gateID, startConnector,
                   isDrawingLine, simulationDelay, reflectGates, reflectCons,
                   loaded, allowed, endConnector>>

\* the pending timers that are due
Due == {i \in DOMAIN timers : timers[i].left = 0}

\* the due timer that was set first
FirstDue == CHOOSE i \in Due : \A j \in Due : i <= j

\* a due timer fires: transferOutputToNextGate(widget, gate) with the
\* gate's outputs as they are now, then the update cycle of the targets
FireTimer ==
    /\ Due # {}
    /\ LET t == timers[FirstDue]
           res == TransferAndUpdate(gates, lineElements, t.gate, simulate, simulationDelay)
       IN /\ gates' = res.gates
          /\ timers' = RemoveAt(timers, FirstDue) \o res.timers
          /\ lastOp' = Op("timer", t.gate, IF t.stale THEN "stale" ELSE "live")
    /\ UNCHANGED <<gateElements, lineElements, gateID, startConnector,
                   isDrawingLine, simulate, simChecked, simulationDelay,
                   reflectGates, reflectCons, loaded, sinceStart>>
    /\ UNCHANGED <<allowSimulation, allowed, endConnector>>

\* one unit of time passes while no timer is due
Tick ==
    /\ loaded
    /\ Due = {}
    /\ timers # <<>> \/ (sinceStart >= 0 /\ sinceStart < SinceCap)
    /\ timers' = [i \in DOMAIN timers |-> [timers[i] EXCEPT !.left = @ - 1]]
    /\ sinceStart' = IF sinceStart >= 0 /\ sinceStart < SinceCap
                     THEN sinceStart + 1 ELSE sinceStart
    /\ lastOp' = Op("tick", 0, "none")
    /\ UNCHANGED <<gateElements, gates, lineElements, gateID, startConnector,
                   isDrawingLine, simulate, simChecked, simulationDelay,
                   reflectGates, reflectCons, loaded>>
    /\ UNCHANGED <<allowSimulation, allowed, endConnector>>

\* a direct call of gate.calculateOutput() on gate id
CalculateOutput(id) ==
    /\ lastOp.op # "calculateOutput"
    /\ gates[id].gatetype # "NONE"
    /\ gates' = [gates EXCEPT ![id] = calculateOutput(@)]
    /\ lastOp' = Op("calculateOutput", id, "none")
    /\ UNCHANGED <<gateElements, lineElements, gateID, startConnector,
                   isDrawingLine, simulate, simChecked, simulationDelay, timers,
                   reflectGates, reflectCons, loaded, sinceStart>>
    /\ UNCHANGED <<allowSimulation, allowed, endConnector>>

\* a user action of a run with a bounded number of user actions; the event
\* is handled after the timer callbacks that are due have run
CountedTo(max, A) ==
    /\ userActions < max
    /\ Due = {}
    /\ A
    /\ userActions' = userActions + 1
    /\ UNCHANGED expected

Counted(A) == CountedTo(MaxUserActions, A)

\* ------------------------------------------------------------ initial states
\* the widget after construction, with the attributes the host page gives it
ConstructedWith(savedGates, savedCons, delay, allow, limits) ==
    /\ gateElements = <<>>
    /\ gates = [id \in GateIds |-> NoGate]
    /\ lineElements = <<>>
    /\ gateID = 0
    /\ startConnector = NoConnector
    /\ isDrawingLine = FALSE
    /\ simulate = TRUE
    /\ simChecked = TRUE
    /\ simulationDelay = delay
    /\ timers = <<>>
    /\ reflectGates = savedGates
    /\ reflectCons = savedCons
    /\ loaded = FALSE
    /\ userActions = 0
    /\ sinceStart = -1
    /\ lastOp = Op("constructor", 0, "none")
    /\ allowSimulation = allow
    /\ allowed = limits
    /\ endConnector = NoConnector
    /\ expected = <<>>

\* the widget constructed with simulation allowed and no allowance set
Constructed(savedGates, savedCons, delay) ==
    ConstructedWith(savedGates, savedCons, delay, 1, Unlimited)

\* ------------------------------------------------ gate evaluation (C1, C2)
\* one gate of any kind with any inputs it can hold, evaluated once
InitEval ==
    \E kind \in GateType, in1 \in Values, in2 \in Values :
        /\ kind \notin TwoInputKinds => in2 = "null"
        /\ gateElements = <<1>>
        /\ gates = [id \in GateIds |->
                      IF id = 1
                      THEN [NewGate(kind) EXCEPT !.input1 = in1, !.input2 = in2]
                      ELSE NoGate]
        /\ lineElements = <<>>
        /\ gateID = 1
        /\ startConnector = NoConnector
        /\ endConnector = NoConnector
        /\ expected = <<>>
        /\ isDrawingLine = FALSE
        /\ simulate = TRUE
        /\ simChecked = TRUE
        /\ simulationDelay = 1
        /\ timers = <<>>
        /\ reflectGates = <<[id |-> 1, gatetype |-> kind]>>
        /\ reflectCons = <<>>
        /\ loaded = TRUE
        /\ userActions = 0
        /\ sinceStart = -1
        /\ lastOp = Op("constructor", 0, "none")
        /\ allowSimulation = 1
        /\ allowed = Unlimited

NextEval == CalculateOutput(1) /\ UNCHANGED <<userActions, expected>>

SpecEval == InitEval /\ [][NextEval]_vars

\* the truth table of a kind on two booleans
TruthTable(kind, a, b) ==
    CASE kind = "AND" -> a /\ b
      [] kind = "OR" -> a \/ b
      [] kind = "NOT" -> ~a
      [] kind = "NAND" -> ~(a /\ b)
      [] kind = "NOR" -> ~(a \/ b)
      [] kind = "XOR" -> a # b
      [] kind = "XNOR" -> a = b
      [] OTHER -> a

Evaluated == lastOp.op = "calculateOutput"

UsesInput2(kind) == kind \in TwoInputKinds

\* C1: for every gate kind and all inputs drawn from {true, false},
\* calculateOutput yields the truth table: AND, OR, NOT, NAND, NOR, XOR, XNOR
\* accordingly, SPLITTER output = output2 = input1, INPUT and OUTPUT the
\* identity on their value.
C1_TruthTable ==
    LET g == gates[1] IN
    (Evaluated /\ g.input1 \in Booleans
        /\ (UsesInput2(g.gatetype) => g.input2 \in Booleans))
    => /\ g.output = ToValue(TruthTable(g.gatetype, g.input1 = "true", g.input2 = "true"))
       /\ g.gatetype = "SPLITTER" => g.output2 = g.input1
       /\ g.gatetype \in {"INPUT", "OUTPUT", "SPLITTER"} => g.output = g.input1

C1_Witness ==
    /\ Evaluated
    /\ gates[1].gatetype = "AND"
    /\ gates[1].input1 = "true"
    /\ gates[1].input2 = "true"
    /\ gates[1].output = "true"

\* C2: for every gate kind and all inputs over {true, false, unset},
\* calculateOutput yields true or false, namely the truth-table value with
\* every unset input replaced by false.
C2_UnsetAsFalse ==
    LET g == gates[1] IN
    Evaluated =>
        /\ g.output \in Booleans
        /\ g.output = ToValue(TruthTable(g.gatetype, g.input1 = "true", g.input2 = "true"))

\* ------------------------------------------------ editing (C3, C4, C5)
\* the kinds the user drags from the sidebar
EditKinds == {"INPUT", "AND"}

\* the kinds of the gates of a saved circuit, by id
SavedKinds == <<"INPUT", "OUTPUT", "AND", "SPLITTER">>

\* number of saved pairs in the reflectCons a widget is constructed with
MaxSavedCons == 1

SavedGates(n) ==
    [i \in 1..n |-> [id |-> i, gatetype |-> SavedKinds[((i - 1) % Len(SavedKinds)) + 1]]]

SavedConnectors(n) ==
    {Connector(i, sl) : i \in 1..n, sl \in {"In1", "In2", "Out", "Out2"}}
        \cap {c \in [gate : 1..n, slot : {"In1", "In2", "Out", "Out2"}] :
                c.slot \in SlotsOf(SavedGates(n)[c.gate].gatetype)}

\* the pairs a saved circuit of n gates may hold: output to input, two gates
SavedPairs(n) ==
    {[start |-> a, end |-> b] : a \in SavedConnectors(n), b \in SavedConnectors(n)}
        \cap {l \in [start : SavedConnectors(n), end : SavedConnectors(n)] :
                /\ ConnectorType(l.start.slot) = "output"
                /\ ConnectorType(l.end.slot) = "input"
                /\ l.start.gate # l.end.gate}

\* the well-formed saved connection lists: no input is a target twice
SavedCons(n) ==
    {cs \in UNION {[1..k -> SavedPairs(n)] : k \in 0..MaxSavedCons} :
        \A i \in DOMAIN cs : \A j \in DOMAIN cs : i # j => cs[i].end # cs[j].end}

InitEdit ==
    \E n \in 0..MaxGateID : \E cs \in SavedCons(n) :
        Constructed(SavedGates(n), cs, 0)

NextEdit ==
    \/ FirstUpdated /\ UNCHANGED <<userActions, expected>>
    \/ \E kind \in EditKinds : Counted(AddGate(kind))
    \/ \E c \in ConnectorsIn(gateElements, gates) : Counted(ConnectorMouseDown(c))
    \/ Counted(CanvasMouseDown)
    \/ \E id \in Range(gateElements) : Counted(DeleteGate(id))
    \/ FireTimer /\ UNCHANGED <<userActions, expected>>

SpecEdit == InitEdit /\ [][NextEdit]_vars

\* the connector of the last connector click
Clicked(op) == Connector(op.gate, op.slot)

\* the input connector of a pair of connectors of different types
InputOf(a, b) == IF ConnectorType(a.slot) = "input" THEN a ELSE b

OutputOf(a, b) == IF ConnectorType(a.slot) = "output" THEN a ELSE b

\* the conditions under which a connect attempt must be rejected
MustReject(lines, a, b) ==
    \/ ConnectorType(a.slot) = ConnectorType(b.slot)
    \/ a.gate = b.gate
    \/ HasIncoming(lines, InputOf(a, b))

Incoming(lines, c) == Cardinality({i \in DOMAIN lines : lines[i].end = c})

C19_GatesBeforeCons ==
    [][(lastOp'.op = "firstUpdated") =>
          /\ gateElements' = SavedIds(reflectGates)
          /\ \A k \in DOMAIN reflectCons :
                \E i \in DOMAIN lineElements' : lineElements'[i] = reflectCons[k]
          /\ \A i \in DOMAIN lineElements' :
                /\ lineElements'[i].start \in ConnectorsIn(gateElements', gates')
                /\ lineElements'[i].end \in ConnectorsIn(gateElements', gates')]_vars

\* a saved pair from the first saved gate to the last one has been loaded
C19_Witness ==
    /\ lastOp.op = "firstUpdated"
    /\ Len(gateElements) = 3
    /\ lineElements # <<>>
    /\ lineElements[1] = [start |-> Connector(1, "Out"), end |-> Connector(3, "In1")]

\* ------------------------------------------------------- half adder (C6)
\* the saved half adder: INPUT A and INPUT B wired to an XOR gate that feeds
\* OUTPUT sum and to an AND gate that feeds OUTPUT carry
HalfAdderGates ==
    <<[id |-> 1, gatetype |-> "INPUT"], [id |-> 2, gatetype |-> "INPUT"],
      [id |-> 3, gatetype |-> "XOR"], [id |-> 4, gatetype |-> "AND"],
      [id |-> 5, gatetype |-> "OUTPUT"], [id |-> 6, gatetype |-> "OUTPUT"]>>

Pair(g1, s1, g2, s2) == [start |-> Connector(g1, s1), end |-> Connector(g2, s2)]

HalfAdderCons ==
    <<Pair(1, "Out", 3, "In1"), Pair(2, "Out", 3, "In2"),
      Pair(1, "Out", 4, "In1"), Pair(2, "Out", 4, "In2"),
      Pair(3, "Out", 5, "In1"), Pair(4, "Out", 6, "In1")>>

InitHalfAdder ==
    \E delay \in 0..MaxDelay : Constructed(HalfAdderGates, HalfAdderCons, delay)

\* the user actions of a simulation run, at most max of them, and the timers
NextSimTo(max) ==
    \/ FirstUpdated /\ UNCHANGED <<userActions, expected>>
    \/ \E id \in Range(gateElements) : CountedTo(max, ClickInput(id))
    \/ CountedTo(max, SimulateCircuit)
    \/ FireTimer /\ UNCHANGED <<userActions, expected>>
    \/ Tick /\ UNCHANGED <<userActions, expected>>

NextSim == NextSimTo(MaxSimActions)

\* setting B to false takes two clicks, one user action more
NextHalfAdder == NextSimTo(MaxSimActions + 1)

SpecHalfAdder == InitHalfAdder /\ [][NextHalfAdder]_vars

\* simulation was started, two waves of the delay have elapsed since and
\* the callbacks that are due have run
TwoWavesAfterStart ==
    /\ loaded
    /\ simulate
    /\ sinceStart >= 2 * simulationDelay
    /\ Due = {}

\* C6: in the half adder, once simulation was started and two propagation
\* waves of the delay have elapsed, A = true and B = true give sum = false
\* and carry = true, and A = true and B = false give sum = true and
\* carry = false.
C6_HalfAdder ==
    TwoWavesAfterStart =>
        /\ (gates[1].input1 = "true" /\ gates[2].input1 = "true")
              => (gates[5].output = "false" /\ gates[6].output = "true")
        /\ (gates[1].input1 = "true" /\ gates[2].input1 = "false")
              => (gates[5].output = "true" /\ gates[6].output = "false")

\* two waves after a start with A = true and B = false, with a real delay
C6_Witness ==
    /\ TwoWavesAfterStart
    /\ simulationDelay > 0
    /\ gates[1].input1 = "true"
    /\ gates[2].input1 = "false"
    /\ gates[5].output = "true"
    /\ gates[6].output = "false"

\* ---------------------------------------------------- splitter fan-out (C7)
\* the saved circuit: one INPUT feeding a SPLITTER whose two outputs each
\* feed an OUTPUT of their own
SplitterGates ==
    <<[id |-> 1, gatetype |-> "INPUT"], [id |-> 2, gatetype |-> "SPLITTER"],
      [id |-> 3, gatetype |-> "OUTPUT"], [id |-> 4, gatetype |-> "OUTPUT"]>>

SplitterCons ==
    <<Pair(1, "Out", 2, "In1"), Pair(2, "Out", 3, "In1"), Pair(2, "Out2", 4, "In1")>>

InitSplitter ==
    \E delay \in 0..MaxDelay : Constructed(SplitterGates, SplitterCons, delay)

\* what the browser does without the user is done: time passes, every
\* timer callback that is due runs, and the widget gets its first update.
\* The last two are weak fairness of FireTimer and of FirstUpdated with
\* ENABLED written as the guard of the action: Due # {} and ~loaded
Scheduling ==
    /\ WF_vars(Tick /\ UNCHANGED <<userActions, expected>>)
    /\ <>[](Due # {}) => []<><<FireTimer /\ UNCHANGED <<userActions, expected>>>>_vars
    /\ <>[](~loaded) => []<><<FirstUpdated /\ UNCHANGED <<userActions, expected>>>>_vars

SpecSplitterFair == InitSplitter /\ [][NextSim]_vars /\ Scheduling

\* simulation is on, n user actions have been taken, and INPUT 1 holds v
HeldAt(n, v) ==
    /\ loaded
    /\ simulate
    /\ userActions = n
    /\ gates[1].input1 = v

BothOutputs(v) == gates[3].output = v /\ gates[4].output = v

\* C7: with one INPUT feeding a SPLITTER whose outputs feed two OUTPUT
\* gates, an INPUT that is true leads, unless the user acts again, to both
\* OUTPUT gates being true, and an INPUT toggled to false leads, unless the
\* user acts again, to both OUTPUT gates being false.
C7_SplitterFanOut ==
    \A n \in 0..MaxSimActions :
        /\ HeldAt(n, "true") ~> (BothOutputs("true") \/ userActions # n)
        /\ HeldAt(n, "false") ~> (BothOutputs("false") \/ userActions # n)

\* both OUTPUT gates are false after the INPUT was toggled to true and back
C7_Witness ==
    /\ HeldAt(2, "false")
    /\ lastOp.op = "timer"
    /\ simulationDelay > 0
    /\ BothOutputs("false")

\* ------------------------------------------- simulation runs (C8, C9, C10)
\* a saved chain: two INPUT gates into an AND gate, a NOT gate behind it,
\* an OUTPUT at the end
ChainGates ==
    <<[id |-> 1, gatetype |-> "INPUT"], [id |-> 2, gatetype |-> "INPUT"],
      [id |-> 3, gatetype |-> "AND"], [id |-> 4, gatetype |-> "NOT"],
      [id |-> 5, gatetype |-> "OUTPUT"]>>

ChainCons ==
    <<Pair(1, "Out", 3, "In1"), Pair(2, "Out", 3, "In2"),
      Pair(3, "Out", 4, "In1"), Pair(4, "Out", 5, "In1")>>

\* the gate that a saved pair starts at comes before the gate it ends at
Acyclic(savedGates, savedCons) ==
    \E rank \in [1..Len(savedGates) -> 1..Len(savedGates)] :
        \A k \in DOMAIN savedCons :
            rank[savedCons[k].start.gate] < rank[savedCons[k].end.gate]

\* the saved acyclic circuits a simulation run starts from
SavedCircuits ==
    {c \in {[savedGates |-> SplitterGates, savedCons |-> SplitterCons],
            [savedGates |-> ChainGates, savedCons |-> ChainCons]} :
        Acyclic(c.savedGates, c.savedCons)}

InitSim ==
    \E c \in SavedCircuits : \E delay \in 0..MaxDelay :
        Constructed(c.savedGates, c.savedCons, delay)

SpecSim == InitSim /\ [][NextSim]_vars

SpecSimFair == InitSim /\ [][NextSim]_vars /\ Scheduling

\* C8: in an acyclic circuit, once the user no longer acts, propagation
\* quiesces: from some point on no delivery is pending and no gate value
\* changes any more.
C8_Quiesces == <>[](timers = <<>>) /\ <>[][gates' = gates]_vars

\* a run has been started, its deliveries have been made, none is pending
C8_Witness ==
    /\ loaded
    /\ simulate
    /\ lastOp.op = "timer"
    /\ timers = <<>>
    /\ userActions > 0
    /\ \E id \in Range(gateElements) :
          gates[id].gatetype = "OUTPUT" /\ gates[id].output = "true"

\* C9: a delivery that was scheduled before resetCircuit() / stop changes
\* no gate input, gate output or connector value when its timer fires.
C9_Cancelled ==
    [][(lastOp'.op = "timer" /\ lastOp'.slot = "stale") => gates' = gates]_vars

\* the value a timer captured for an output connector when it was set
SnapValue(t, slot) == IF slot = "Out2" THEN t.snap[2] ELSE t.snap[1]

\* C10: a delivery writes to its targets the source output as it was when
\* the delivery was scheduled, not the output at the time the timer fires.
C10_Snapshot ==
    [][(lastOp'.op = "timer" /\ Due # {}) =>
          \A i \in DOMAIN lineElements :
              lineElements[i].start.gate = timers[FirstDue].gate =>
                  GetInput(gates'[lineElements[i].end.gate], lineElements[i].end.slot)
                      = SnapValue(timers[FirstDue], lineElements[i].start.slot)]_vars

\* ------------------------------------ simulation control (C11, C12, C16, C17)
\* a saved inverter: an INPUT into a NOT gate into an OUTPUT
InverterGates ==
    <<[id |-> 1, gatetype |-> "INPUT"], [id |-> 2, gatetype |-> "NOT"],
      [id |-> 3, gatetype |-> "OUTPUT"]>>

InverterCons == <<Pair(1, "Out", 2, "In1"), Pair(2, "Out", 3, "In1")>>

\* the host page sets the allow-simulation attribute to 0 or 1
InitControl ==
    \E delay \in 0..MaxDelay : \E allow \in {0, 1} :
        ConstructedWith(InverterGates, InverterCons, delay, allow, Unlimited)

NextControl ==
    \/ FirstUpdated /\ UNCHANGED <<userActions, expected>>
    \/ \E id \in Range(gateElements) : CountedTo(MaxSimActions, ClickInput(id))
    \/ CountedTo(MaxSimActions, SimulateCircuit)
    \/ CountedTo(MaxSimActions, CallSimulateCircuit)
    \/ CountedTo(MaxSimActions, ResetCircuit)
    \/ CountedTo(MaxSimActions, HandleAllowSimulation)
    \/ FireTimer /\ UNCHANGED <<userActions, expected>>
    \/ Tick /\ UNCHANGED <<userActions, expected>>

SpecControl == InitControl /\ [][NextControl]_vars

\* ConnectorElement.value of a connector of a gate
ConValue(g, slot) ==
    CASE slot = "In1" -> g.conIn1
      [] slot = "In2" -> g.conIn2
      [] slot = "Out" -> g.conOut
      [] OTHER -> g.conOut2

\* the handlers that end with resetCircuit()
ResetOps == {"resetCircuit", "stop", "handleAllowSimulation"}

\* C11: resetCircuit() can be called in any state, and immediately after it
\* the value of every connector of every placed gate is unset (null).
C11_ResetUnsets ==
    [][(lastOp'.op \in ResetOps) =>
          \A c \in ConnectorsIn(gateElements', gates') :
              ConValue(gates'[c.gate], c.slot) = "null"]_vars

\* the deliveries that are pending: the gate and the time left of each timer
Pending(ts) == [i \in DOMAIN ts |-> [gate |-> ts[i].gate, left |-> ts[i].left]]

\* C12: a second resetCircuit() right after a first one changes nothing:
\* gate values, connector values and pending deliveries are as after one.
C12_ResetTwice ==
    [][(lastOp.op = "resetCircuit" /\ lastOp'.op = "resetCircuit") =>
          /\ gates' = gates
          /\ Pending(timers') = Pending(timers)]_vars

\* C16: while allowSimulation is 0, simulateCircuit() does not set simulate
\* to true and schedules no delivery; while it is 1, a start resets the
\* circuit before it seeds: the deliveries it schedules are set after the
\* reset, all earlier ones before it.
C16_StartNeedsEnabled ==
    [][(lastOp'.op \in {"start", "stop"}) =>
          /\ allowSimulation = 0 =>
                (~simulate' /\ Pending(timers') = Pending(timers))
          /\ (allowSimulation = 1 /\ lastOp'.op = "start") =>
                \A i \in DOMAIN timers' : timers'[i].stale <=> i <= Len(timers)]_vars

\* C17: after handleAllowSimulation, in either direction and from any prior
\* state, simulate is false.
C17_AllowToggleStops ==
    [][(lastOp'.op = "handleAllowSimulation") => ~simulate']_vars

\* ------------------------------------------------- deletion (C13, C14, C20)
\* the saved chain, and gates dropped on the trash can: the drag data may
\* name any id, also one that no placed gate has
InitDelete ==
    \E delay \in 0..MaxDelay : Constructed(ChainGates, ChainCons, delay)

NextDelete ==
    \/ FirstUpdated /\ UNCHANGED <<userActions, expected>>
    \/ \E id \in Range(gateElements) : Counted(ClickInput(id))
    \/ \E id \in GateIds : Counted(HandleDropTrashCan(id))
    \/ Counted(SimulateCircuit)
    \/ FireTimer /\ UNCHANGED <<userActions, expected>>
    \/ Tick /\ UNCHANGED <<userActions, expected>>

SpecDelete == InitDelete /\ [][NextDelete]_vars

\* whether a connection has an endpoint on a connector of the gate
Touches(l, id) == l.start.gate = id \/ l.end.gate = id

\* the number of connections of lines with an endpoint on the gate
ConnectionsOf(lines, id) == Cardinality({i \in DOMAIN lines : Touches(lines[i], id)})

\* C13: deleteGate on a gate with N connections, as source or as target,
\* removes the gate from gateElements, makes lineElements shorter by exactly
\* N, leaves no connection with an endpoint on the deleted gate, and leaves
\* the connections between other gates as they were, in their order.
C13_DeleteCascade ==
    [][(lastOp'.op = "deleteGate") =>
          LET id == lastOp'.gate IN
          /\ id \notin Range(gateElements')
          /\ Range(gateElements') = Range(gateElements) \ {id}
          /\ Len(lineElements') = Len(lineElements) - ConnectionsOf(lineElements, id)
          /\ \A i \in DOMAIN lineElements' : ~Touches(lineElements'[i], id)
          /\ lineElements' = SelectSeq(lineElements, LAMBDA l : ~Touches(l, id))]_vars

\* the NOT gate of the chain, a target and a source, has just been deleted
\* and the connections of the two INPUT gates remain
C13_Witness ==
    /\ lastOp.op = "deleteGate"
    /\ lastOp.gate = 4
    /\ 4 \notin Range(gateElements)
    /\ lineElements # <<>>
    /\ \A i \in DOMAIN lineElements : lineElements[i].end.gate = 3

\* C14: after deleteGate, every input that a connection from the deleted
\* gate drove is unset, and the gate of that input has been re-evaluated:
\* its output is its truth-table value with the unset input read as false.
C14_DownstreamUnset ==
    [][(lastOp'.op = "deleteGate") =>
          \A i \in DOMAIN lineElements :
              lineElements[i].start.gate = lastOp'.gate =>
                  LET c == lineElements[i].end
                      g == gates'[c.gate]
                  IN /\ GetInput(g, c.slot) = "null"
                     /\ g.output = ToValue(TruthTable(g.gatetype, g.input1 = "true",
                                                      g.input2 = "true"))]_vars

\* C20: a delete request whose id matches no placed gate raises no error
\* and leaves gates, connections and simulation state unchanged.
C20_DeleteTotal ==
    [][(lastOp'.op = "handleDropTrashCan" /\ lastOp'.gate \notin Range(gateElements)) =>
          /\ lastOp'.slot # "TypeError"
          /\ gates' = gates
          /\ gateElements' = gateElements
          /\ lineElements' = lineElements
          /\ simulate' = simulate
          /\ timers' = timers]_vars

\* ------------------------------------------------------ gate limits (C15)
\* the largest allowance a run is configured with or the author types
MaxAllowed == 2

\* the kinds dragged from the sidebar in a run with limits
LimitKinds == {"AND", "NOT", "INPUT"}

\* an empty workspace; the host page sets and-gate-allowed and
\* not-gate-allowed
InitLimits ==
    \E a \in -1..MaxAllowed : \E n \in {-1, 0} :
        ConstructedWith(<<>>, <<>>, 0, 1,
                        [Unlimited EXCEPT !["AND"] = a, !["NOT"] = n])

NextLimits ==
    \/ FirstUpdated /\ UNCHANGED <<userActions, expected>>
    \/ \E kind \in LimitKinds : Counted(AddGate(kind))
    \/ \E id \in Range(gateElements) : Counted(DeleteGate(id))
    \/ \E typed \in -1..MaxAllowed : Counted(HandleInputChange("AND", typed))
    \/ FireTimer /\ UNCHANGED <<userActions, expected>>

SpecLimits == InitLimits /\ [][NextLimits]_vars

\* C15: a gate of a kind with allowance n >= 0 is never placed when n gates
\* of the kind are placed already; a refused add creates no gate and
\* leaves the count of the kind as it is; a kind with allowance -1 is never
\* refused.
C15_LimitEnforced ==
    [][/\ (lastOp'.op = "addGate" /\ gateElements' # gateElements) =>
            LET kind == gates'[lastOp'.gate].gatetype IN
            ~(/\ kind \in LimitedKinds
              /\ allowed[kind] >= 0
              /\ CountOf(gateElements, gates, kind) = allowed[kind])
       /\ (lastOp'.op = "addGateRefused" /\ lastOp' # lastOp) =>
            /\ lastOp'.slot \in LimitedKinds
            /\ allowed[lastOp'.slot] # -1
            /\ gateElements' = gateElements
            /\ gates' = gates
            /\ CountOf(gateElements', gates', lastOp'.slot)
                  = CountOf(gateElements, gates, lastOp'.slot)]_vars

\* with andGateAllowed = 1 and one AND gate placed, a second add of an AND
\* gate has just been refused
C15_Witness ==
    /\ lastOp.op = "addGateRefused"
    /\ lastOp.slot = "AND"
    /\ allowed["AND"] = 1
    /\ CountOf(gateElements, gates, "AND") = 1

\* ------------------------------------------------- feedback cycles (C18)
\* a saved inverting loop: a NOT gate into a SPLITTER whose first output
\* feeds the NOT gate again and whose second output feeds an OUTPUT
RingGates ==
    <<[id |-> 1, gatetype |-> "NOT"], [id |-> 2, gatetype |-> "SPLITTER"],
      [id |-> 3, gatetype |-> "OUTPUT"]>>

RingCons ==
    <<Pair(1, "Out", 2, "In1"), Pair(2, "Out", 1, "In1"), Pair(2, "Out2", 3, "In1")>>

InitRing ==
    \E delay \in 0..MaxDelay : Constructed(RingGates, RingCons, delay)

NextRing ==
    \/ FirstUpdated /\ UNCHANGED <<userActions, expected>>
    \/ CountedTo(MaxSimActions, SimulateCircuit)
    \/ CountedTo(MaxSimActions, ResetCircuit)
    \/ FireTimer /\ UNCHANGED <<userActions, expected>>
    \/ Tick /\ UNCHANGED <<userActions, expected>>

SpecRingFair == InitRing /\ [][NextRing]_vars /\ Scheduling

\* simulation is running and the inverter of the loop holds an evaluated
\* output
Flipping == loaded /\ simulate /\ gates[1].output \in Booleans

Settled == loaded /\ simulate /\ timers = <<>>

\* C21: when propagation has settled during a running simulation, every
\* placed gate's output equals the truth-table value of its kind on its
\* current inputs, an unset input counting as false, and every connected
\* input equals the output of the gate that drives it.
C21_SettledConsistent ==
    Settled =>
        /\ \A id \in Range(gateElements) :
              /\ gates[id].output
                    = ToValue(TruthTable(gates[id].gatetype,
                                         Truthy(gates[id].input1),
                                         Truthy(gates[id].input2)))
              /\ gates[id].gatetype = "SPLITTER" =>
                    gates[id].output2 = ToValue(Truthy(gates[id].input1))
        /\ \A i \in DOMAIN lineElements :
              GetInput(gates[lineElements[i].end.gate], lineElements[i].end.slot)
                  = SourceValue(gates[lineElements[i].start.gate],
                                lineElements[i].start.slot)

\* ------------------------------------------------ the delay input (C23)
\* the saved inverter, edited through the delay input while it runs
InitDelay ==
    \E delay \in 0..MaxDelay :
        Constructed(InverterGates, InverterCons, delay)

NextDelay ==
    \/ FirstUpdated /\ UNCHANGED <<userActions, expected>>
    \/ \E id \in Range(gateElements) : CountedTo(MaxSimActions, ClickInput(id))
    \/ \E typed \in -1..MaxDelay :
          CountedTo(MaxSimActions, HandleInputChange("simulationDelay", typed))
    \/ FireTimer /\ UNCHANGED <<userActions, expected>>
    \/ Tick /\ UNCHANGED <<userActions, expected>>

SpecDelay == InitDelay /\ [][NextDelay]_vars

\* C23: simulationDelay is a non-negative integer in every reachable
\* state, also after the user clears the delay input or enters a negative
\* or non-numeric value.
C23_DelayNonNegative == simulationDelay \in Nat

\* ------------------------------------------- allowances as a bound (C29)
\* C29: in every reachable state, for each kind with a non-negative
\* allowance n, at most n gates of the kind are placed, also after
\* handleInputChange changed the allowance while gates are placed.
C29_CountWithinAllowance ==
    \A kind \in LimitedKinds :
        allowed[kind] >= 0 => CountOf(gateElements, gates, kind) <= allowed[kind]

\* ------------------------------------------ the connect interaction (C30)
\* the last step left the drawing of a line: a click on a connector while
\* one was held or on a connected connector, a click on the canvas, or the
\* deletion of a gate
LeftDrawing(op, held) ==
    \/ op.op = "connectorMouseDown" /\ held # NoConnector
    \/ op.op = "connectorMouseDown" /\ IsConnected(lineElements, Clicked(op))
    \/ op.op = "canvasMouseDown"
    \/ op.op = "deleteGate"

\* C30: between events isDrawingLine is true exactly when startConnector
\* is set, and endConnector is null; a second click on a connector
\* (accepted or rejected), a click on a connected connector, a click on the
\* canvas and deleteGate each leave startConnector null and isDrawingLine
\* false together.
C30_DrawingState ==
    /\ []((isDrawingLine <=> startConnector # NoConnector)
            /\ endConnector = NoConnector)
    /\ [][(lastOp' # lastOp /\ LeftDrawing(lastOp', startConnector)) =>
              (startConnector' = NoConnector /\ ~isDrawingLine')]_vars

\* a line was being drawn and the second click fell on a connector that
\* has a connection to a third connector: the drawing has ended
C30_Witness ==
    /\ lastOp.op = "connectorMouseDown"
    /\ lastOp.prev # NoConnector
    /\ IsConnected(lineElements, Clicked(lastOp))
    /\ ~IsConnected(lineElements, lastOp.prev)
    /\ startConnector = NoConnector
    /\ ~isDrawingLine
    /\ endConnector = NoConnector

\* ----------------------------------------------------- INPUT gates (C26)
\* the placed INPUT gates
InputGates == {id \in Range(gateElements) : gates[id].gatetype = "INPUT"}

\* C26: the output of a placed INPUT gate is always true or false, never
\* unset, and false until the user clicks it; each click toggles it; the
\* seeding of a simulation start leaves it at the value the user set, also
\* for an INPUT gate that was never clicked.
C26_InputOutput ==
    /\ [](\A id \in InputGates : gates[id].output \in Booleans)
    /\ [][(lastOp'.op \in {"firstUpdated", "addGate"} /\ lastOp' # lastOp) =>
              \A id \in InputGates' \ InputGates : gates'[id].output = "false"]_vars
    /\ [][(lastOp'.op = "changeInput1" /\ lastOp' # lastOp) =>
              gates'[lastOp'.gate].output = JsNot(gates[lastOp'.gate].output)]_vars
    /\ [][(lastOp'.op = "start" /\ lastOp' # lastOp) =>
              \A id \in InputGates : gates'[id].output = gates[id].output]_vars

\* ------------------------------------------------- assessment mode (C27)
\* the saved chain in a widget the host page gives allow-simulation="0";
\* the user toggles INPUT gates and never enables the simulation
InitAssessment ==
    \E delay \in 0..MaxDelay :
        ConstructedWith(ChainGates, ChainCons, delay, 0, Unlimited)

NextAssessment ==
    \/ FirstUpdated /\ UNCHANGED <<userActions, expected>>
    \/ \E id \in Range(gateElements) : CountedTo(MaxSimActions, ClickInput(id))
    \/ FireTimer /\ UNCHANGED <<userActions, expected>>
    \/ Tick /\ UNCHANGED <<userActions, expected>>

SpecAssessment == InitAssessment /\ [][NextAssessment]_vars

\* the inputs and outputs of the gates that are not INPUT gates
OtherGates(gs) ==
    [id \in Range(gateElements) \ InputGates |->
        <<gs[id].input1, gs[id].input2, gs[id].output, gs[id].output2>>]

\* C27: with allowSimulation = 0 from the host and never enabled by the
\* user, simulate is false and nothing propagates: no toggle of an INPUT
\* gate, at once or by a later delivery, changes the input or the output of
\* another gate.
C27_NoPropagation ==
    /\ [](allowSimulation = 0 => ~simulate)
    /\ [][(allowSimulation = 0 /\ loaded /\ userActions' > 0) =>
              OtherGates(gates') = OtherGates(gates)]_vars

\* ------------------------------------------ toggles while stopped (C28)
\* the gates that are not INPUT gates, connector values included
OtherGateRecords(gs) == [id \in Range(gateElements) \ InputGates |-> gs[id]]

\* C28: while the simulation is stopped, a toggle of an INPUT gate
\* schedules no delivery, and neither the toggle nor a delivery set while
\* stopped changes the inputs, outputs or connector values of another gate.
C28_StoppedToggle ==
    /\ [][(loaded /\ ~simulate /\ lastOp'.op = "changeInput1") =>
              (timers' = timers /\ OtherGateRecords(gates') = OtherGateRecords(gates))]_vars
    /\ [][(loaded /\ ~simulate /\ lastOp'.op = "timer" /\ lastOp'.slot = "live") =>
              OtherGateRecords(gates') = OtherGateRecords(gates)]_vars

\* ------------------------------------------- the persisted strings (C24)
\* reflectGates names the placed gates and reflectCons the connections
Mirrors ==
    /\ {reflectGates[k].id : k \in DOMAIN reflectGates} = Range(gateElements)
    /\ Range(reflectCons) = Range(lineElements)

\* C24: once loaded, the persisted strings mirror the live graph, and
\* deleteGate removes from reflectGates exactly the entry of the gate and
\* from reflectCons exactly the entries of the gate's connections.
C24_PersistedMirror ==
    /\ [](loaded => Mirrors)
    /\ [][(lastOp'.op = "deleteGate" /\ gateElements' # gateElements) =>
            /\ reflectGates'
                  = SelectSeq(reflectGates, LAMBDA e : e.id # lastOp'.gate)
            /\ reflectCons'
                  = SelectSeq(reflectCons, LAMBDA c : ~Touches(c, lastOp'.gate))]_vars

FireTimerAt_snapshot(i) ==
    /\ i \in Due
    /\ LET t == timers[i]
           old == [gates EXCEPT ![t.gate].output = t.snap[1],
                                ![t.gate].output2 = t.snap[2]]
           res == TransferAndUpdate(old, lineElements, t.gate, simulate, simulationDelay)
       IN /\ gates' = [res.gates EXCEPT ![t.gate].output = gates[t.gate].output,
                                        ![t.gate].output2 = gates[t.gate].output2]
          /\ timers' = RemoveAt(timers, i) \o res.timers
          /\ lastOp' = Op("timer", t.gate, IF i = FirstDue THEN "first" ELSE "later")
    /\ UNCHANGED <<gateElements, lineElements, gateID, startConnector,
                   isDrawingLine, simulate, simChecked, simulationDelay,
                   reflectGates, reflectCons, loaded, sinceStart>>
    /\ UNCHANGED <<allowSimulation, allowed, endConnector>>

\* a due timer fires, whichever of the due timers it is: the callback of
\* FireTimer for the timer at position i; the slot of lastOp tells whether
\* it was the due timer set first or a later one
FireTimerAt(i) ==
    /\ i \in Due
    /\ LET t == timers[i]
           res == TransferAndUpdate(gates, lineElements, t.gate, simulate, simulationDelay)
       IN /\ gates' = res.gates
          /\ timers' = RemoveAt(timers, i) \o res.timers
          /\ lastOp' = Op("timer", t.gate, IF i = FirstDue THEN "first" ELSE "later")
    /\ UNCHANGED <<gateElements, lineElements, gateID, startConnector,
                   isDrawingLine, simulate, simChecked, simulationDelay,
                   reflectGates, reflectCons, loaded, sinceStart>>
    /\ UNCHANGED <<allowSimulation, allowed, endConnector>>

\* a saved circuit in which two paths from one INPUT meet again: INPUT 1
\* into SPLITTER 2, one branch into AND 4, the other through NOT 3 into
\* AND 4, and NOT 5 behind the AND gate
MeetGates ==
    <<[id |-> 1, gatetype |-> "INPUT"], [id |-> 2, gatetype |-> "SPLITTER"],
      [id |-> 3, gatetype |-> "NOT"], [id |-> 4, gatetype |-> "AND"],
      [id |-> 5, gatetype |-> "NOT"]>>

MeetCons ==
    <<Pair(1, "Out", 2, "In1"), Pair(2, "Out", 4, "In1"),
      Pair(2, "Out2", 3, "In1"), Pair(3, "Out", 4, "In2"),
      Pair(4, "Out", 5, "In1")>>

\* number of user actions of a run whose timers fire in any order
MaxOrderActions == 2

InitOrder ==
    \E delay \in 0..MaxDelay :
        /\ Acyclic(MeetGates, MeetCons)
        /\ Constructed(MeetGates, MeetCons, delay)

\* the gates once no timer is left, when from the gates gs and the pending
\* timers ts on the timers fire in the order they were set and no user acts
RECURSIVE SettledGates(_, _, _, _, _)
SettledGates(gs, ts, lines, sim, delay) ==
    LET due == {i \in DOMAIN ts : ts[i].left = 0}
    IN IF ts = <<>> THEN gs
       ELSE IF due = {}
       THEN SettledGates(gs, [i \in DOMAIN ts |-> [ts[i] EXCEPT !.left = @ - 1]],
                         lines, sim, delay)
       ELSE LET first == CHOOSE i \in due : \A j \in due : i <= j
                res == TransferAndUpdate(gs, lines, ts[first].gate, sim, delay)
            IN SettledGates(res.gates, RemoveAt(ts, first) \o res.timers,
                            lines, sim, delay)

\* a user action or the load, after which the settled gates are computed
\* anew
Expecting(A) ==
    /\ A
    /\ expected' = SettledGates(gates', timers', lineElements', simulate',
                                 simulationDelay')

NextOrder ==
    \/ Expecting(FirstUpdated) /\ UNCHANGED userActions
    \/ \E id \in Range(gateElements) :
          /\ userActions < MaxOrderActions
          /\ Due = {}
          /\ Expecting(ClickInput(id))
          /\ userActions' = userActions + 1
    \/ /\ userActions < MaxOrderActions
       /\ Due = {}
       /\ Expecting(SimulateCircuit)
       /\ userActions' = userActions + 1
    \/ \E i \in DOMAIN timers : FireTimerAt(i) /\ UNCHANGED <<userActions, expected>>
    \/ Tick /\ UNCHANGED <<userActions, expected>>

SpecOrder == InitOrder /\ [][NextOrder]_vars

====
